---- MODULE Spec2Model ----
(***************************************************************************)
(* A model of onedrivefs: a read-only io/fs facade over the OneDrive       *)
(* (Microsoft Graph) drive API.                                            *)
(*                                                                         *)
(* Go strings are TLA+ strings; a byte of a string s is SubSeq(s, i, i).   *)
(* path/filepath is modelled for a Unix build (separator '/').             *)
(***************************************************************************)
EXTENDS Integers, Sequences, FiniteSets, TLC

\* ------------------------------------------------------------------ bounds
\* Longest path string handed to the facade.
MaxPathLen == 3
\* Number of distinct child names a directory can hold.
MaxChildren == 3
\* Number of ReadDir calls tracked per directory handle.
MaxReads == 3

\* ------------------------------------------------------------ string helpers
At(s, i) == SubSeq(s, i, i)

HasPrefix(s, p) == Len(s) >= Len(p) /\ SubSeq(s, 1, Len(p)) = p

\* strings.TrimPrefix
TrimPrefix(s, p) == IF HasPrefix(s, p) THEN SubSeq(s, Len(p) + 1, Len(s)) ELSE s

\* strings.LastIndex for a one-byte needle, 1-based, 0 when absent
RECURSIVE LastIndexFrom(_, _, _)
LastIndexFrom(s, c, i) ==
  IF i = 0 THEN 0 ELSE IF At(s, i) = c THEN i ELSE LastIndexFrom(s, c, i - 1)

LastIndexByte(s, c) == LastIndexFrom(s, c, Len(s))

\* strings.Index for a one-byte needle, 1-based, 0 when absent
RECURSIVE IndexFrom(_, _, _)
IndexFrom(s, c, i) ==
  IF i > Len(s) THEN 0 ELSE IF At(s, i) = c THEN i ELSE IndexFrom(s, c, i + 1)

IndexByte(s, c) == IndexFrom(s, c, 1)

\* strings.Contains for a one-byte needle
ContainsByte(s, c) == IndexByte(s, c) > 0

\* The printable ASCII characters in byte order: bytes 32 to 95 and bytes 97
\* to 126 (byte 96, the grave accent, cannot be written in a string here).
AsciiLow == " !\"#$%&'()*+,-./0123456789:;<=>?@ABCDEFGHIJKLMNOPQRSTUVWXYZ[\\]^_"

AsciiHigh == "abcdefghijklmnopqrstuvwxyz{|}~"

\* The byte value of each of these characters.
AsciiCodes ==
  [c \in {At(AsciiLow, i) : i \in 1..Len(AsciiLow)} \cup {At(AsciiHigh, i) : i \in 1..Len(AsciiHigh)} |->
     IF IndexByte(AsciiLow, c) > 0 THEN 31 + IndexByte(AsciiLow, c)
     ELSE 96 + IndexByte(AsciiHigh, c)]

\* The byte value of a character: strings are ASCII strings, one byte per
\* character; a character outside ASCII has no value here.
Code(c) ==
  CASE c = "\t" -> 9 [] c = "\n" -> 10 [] c = "\f" -> 12 [] c = "\r" -> 13
    [] OTHER -> AsciiCodes[c]

\* strings.Compare: byte-wise lexicographic order; -1, 0 or +1.
RECURSIVE Compare(_, _)
Compare(a, b) ==
  IF a = "" /\ b = "" THEN 0
  ELSE IF a = "" THEN -1
  ELSE IF b = "" THEN 1
  ELSE IF Code(Head(a)) < Code(Head(b)) THEN -1
  ELSE IF Code(Head(a)) > Code(Head(b)) THEN 1
  ELSE Compare(Tail(a), Tail(b))

\* ---------------------------------------------------------- path validation
\* filepath.IsAbs on Unix
IsAbs(path) == HasPrefix(path, "/")

\* The ".." case of filepath.Clean: drop the last element written to out.
RECURSIVE CleanBacktrack(_, _, _)
CleanBacktrack(out, w, dotdot) ==
  IF w > dotdot /\ At(out, w + 1) # "/"
  THEN CleanBacktrack(out, w - 1, dotdot)
  ELSE SubSeq(out, 1, w)

\* The default case of filepath.Clean: copy one path element.
RECURSIVE CleanElemEnd(_, _)
CleanElemEnd(path, r) ==
  IF r < Len(path) /\ At(path, r + 1) # "/" THEN CleanElemEnd(path, r + 1) ELSE r

\* The main loop of filepath.Clean; r is the 0-based read index.
RECURSIVE CleanLoop(_, _, _, _, _)
CleanLoop(path, rooted, r, out, dotdot) ==
  LET n == Len(path)
      ch(i) == At(path, i + 1)
  IN IF r >= n THEN out
     ELSE IF ch(r) = "/" THEN CleanLoop(path, rooted, r + 1, out, dotdot)
     ELSE IF ch(r) = "." /\ (r + 1 = n \/ ch(r + 1) = "/")
       THEN CleanLoop(path, rooted, r + 1, out, dotdot)
     ELSE IF ch(r) = "." /\ ch(r + 1) = "." /\ (r + 2 = n \/ ch(r + 2) = "/")
       THEN IF Len(out) > dotdot
            THEN CleanLoop(path, rooted, r + 2,
                           CleanBacktrack(out, Len(out) - 1, dotdot), dotdot)
            ELSE IF ~rooted
            THEN LET o2 == (IF Len(out) > 0 THEN out \o "/" ELSE out) \o ".."
                 IN CleanLoop(path, rooted, r + 2, o2, Len(o2))
            ELSE CleanLoop(path, rooted, r + 2, out, dotdot)
     ELSE LET o2 == IF (rooted /\ Len(out) # 1) \/ (~rooted /\ Len(out) # 0)
                    THEN out \o "/" ELSE out
              e == CleanElemEnd(path, r)
          IN CleanLoop(path, rooted, e, o2 \o SubSeq(path, r + 1, e), dotdot)

\* filepath.Clean on Unix
Clean(path) ==
  IF path = "" THEN "."
  ELSE LET rooted == At(path, 1) = "/"
           out == IF rooted THEN CleanLoop(path, TRUE, 1, "/", 1)
                            ELSE CleanLoop(path, FALSE, 0, "", 0)
       IN IF out = "" THEN "." ELSE out

\* validatePath: the message of the error, "" for nil.
validatePathNoBackslashCheck(path) ==
  IF IsAbs(path) THEN "absolute paths are not allowed"
  ELSE IF Clean(path) # path THEN "relative path elements are not allowed"
  ELSE ""

validatePath(path) ==
  IF IsAbs(path) THEN "absolute paths are not allowed"
  ELSE IF Clean(path) # path THEN "relative path elements are not allowed"
  ELSE IF ContainsByte(path, "\\") THEN "backslashes are not allowed in path"
  ELSE ""

\* ------------------------------------------------------------- URL building
HexDigit(n) == SubSeq("0123456789ABCDEF", n + 1, n + 1)

PercentEncode(c) == "%" \o HexDigit(Code(c) \div 16) \o HexDigit(Code(c) % 16)

IsUnreserved(c) ==
  \/ (Code(c) >= 97 /\ Code(c) <= 122)
  \/ (Code(c) >= 65 /\ Code(c) <= 90)
  \/ (Code(c) >= 48 /\ Code(c) <= 57)
  \/ c \in {"-", "_", ".", "~"}

\* net/url shouldEscape in path-segment mode
ShouldEscapePathSegment(c) ==
  IF IsUnreserved(c) THEN FALSE
  ELSE IF c \in {"$", "&", "+", ":", "=", "@"} THEN FALSE
  ELSE TRUE

\* url.PathEscape
RECURSIVE PathEscape(_)
PathEscape(s) ==
  IF s = "" THEN ""
  ELSE (IF ShouldEscapePathSegment(Head(s)) THEN PercentEncode(Head(s)) ELSE Head(s))
       \o PathEscape(Tail(s))

\* url.QueryEscape, used by url.Values.Encode
RECURSIVE QueryEscape(_)
QueryEscape(s) ==
  IF s = "" THEN ""
  ELSE (IF Head(s) = " " THEN "+"
        ELSE IF IsUnreserved(Head(s)) THEN Head(s)
        ELSE PercentEncode(Head(s)))
       \o QueryEscape(Tail(s))

\* The loop of net/url resolvePath: removes "." and ".." elements.
RECURSIVE ResolveLoop(_, _, _)
ResolveLoop(remaining, dst, first) ==
  LET i == IndexByte(remaining, "/")
      found == i > 0
      elem == IF found THEN SubSeq(remaining, 1, i - 1) ELSE remaining
      rest == IF found THEN SubSeq(remaining, i + 1, Len(remaining)) ELSE ""
      step == IF elem = "." THEN [dst |-> dst, first |-> FALSE]
              ELSE IF elem = ".."
              THEN LET str == Tail(dst)
                       index == LastIndexByte(str, "/")
                   IN IF index = 0 THEN [dst |-> "/", first |-> TRUE]
                      ELSE [dst |-> "/" \o SubSeq(str, 1, index - 1), first |-> first]
              ELSE [dst |-> (IF first THEN dst ELSE dst \o "/") \o elem, first |-> FALSE]
  IN IF found THEN ResolveLoop(rest, step.dst, step.first)
     ELSE IF elem = "." \/ elem = ".." THEN step.dst \o "/" ELSE step.dst

\* net/url resolvePath(base, ref)
ResolvePath(base, ref) ==
  LET full == IF ref = "" THEN base
              ELSE IF Head(ref) # "/"
              THEN SubSeq(base, 1, LastIndexByte(base, "/")) \o ref
              ELSE ref
      r == ResolveLoop(full, "/", TRUE)
  IN IF full = "" THEN ""
     ELSE IF Len(r) > 1 /\ At(r, 2) = "/" THEN Tail(r) ELSE r

baseURLPrefix == "https://graph.microsoft.com"

baseURLPath == "/v1.0/"

\* newRequest: the absolute URL baseURL.Parse(relativeURL) gives a GET request.
\* The relative URLs built here always parse, so the error return is dead.
newRequest(relativeURL) == baseURLPrefix \o ResolvePath(baseURLPath, relativeURL)

\* The relative URL getDriveItemsByPath builds.
getDriveItemsByPathURL(driveID, itemPath) ==
  LET root == IF driveID # "" THEN "/v1.0/drives/" \o PathEscape(driveID) \o "/root"
                              ELSE "me/drive/root"
  IN IF itemPath # "" THEN root \o ":/" \o PathEscape(itemPath) ELSE root

\* The relative URL listDriveItems builds.
listDriveItemsURL(driveID, folderID) ==
  IF driveID # ""
  THEN IF folderID # ""
       THEN "me/drives/" \o PathEscape(driveID) \o "/items/" \o PathEscape(folderID) \o "/children"
       ELSE "me/drives/" \o PathEscape(driveID) \o "/root/children"
  ELSE IF folderID # ""
       THEN "me/drive/items/" \o PathEscape(folderID) \o "/children"
       ELSE "me/drive/root/children"

\* The query listDriveItems sets: url.Values{"$orderby": {"name asc"}}.Encode()
listDriveItemsQuery == QueryEscape("$orderby") \o "=" \o QueryEscape("name asc")

\* ------------------------------------------------------------------- errors
\* A Go error value: its dynamic type k and what it carries.  k = "nil" is the
\* nil error.
MkErr(k, op, path, msg, hdr) == [k |-> k, op |-> op, path |-> path, msg |-> msg, hdr |-> hdr]

NilErr == MkErr("nil", "", "", "", "")

\* &fs.PathError{Op: op, Path: path, Err: errors.New(msg)}
PathError(op, path, msg) == MkErr("fs.PathError", op, path, msg, "")

\* fs.ErrNotExist
ErrNotExist == MkErr("fs.ErrNotExist", "", "", "file does not exist", "")

\* io.EOF
EOF == MkErr("io.EOF", "", "", "EOF", "")

ItemNotFoundErrorCode == "itemNotFound"

ActivityLimitReachedErrorCode == "activityLimitReached"

\* *OneDriveAPIError with its Code and ResponseHeader
OneDriveAPIError(code, hdr) == MkErr("OneDriveAPIError", "", "", code, hdr)

\* errors.New(msg)
ErrorsNew(msg) == MkErr("errors.errorString", "", "", msg, "")

ContextErrMsg == "context deadline exceeded"

\* The bound context's own error (context.DeadlineExceeded / context.Canceled).
ContextErr == MkErr("context.Error", "", "", ContextErrMsg, "")

\* *url.Error returned by http.Client.Do, wrapping its cause.
URLError(cause) == MkErr("url.Error", "Get", "", cause, "")

\* The error json.Decoder.Decode returns for a body that is not the expected JSON.
JSONError == MkErr("json.SyntaxError", "", "", "invalid character", "")

\* errors.Is(err, context.DeadlineExceeded): the context error, bare or wrapped
\* in a *url.Error.
IsContextErr(e) ==
  \/ e.k = "context.Error"
  \/ (e.k = "url.Error" /\ e.msg = ContextErrMsg)

\* resp.Status for the status codes of the model
StatusText(code) ==
  CASE code = 200 -> "200 OK"
    [] code = 204 -> "204 No Content"
    [] code = 400 -> "400 Bad Request"
    [] code = 404 -> "404 Not Found"
    [] OTHER -> "500 Internal Server Error"

\* ------------------------------------------------------------- remote items
\* driveItem as decoded from JSON; Folder and Root are the presence of the
\* "folder" and "root" members.
MkItem(id, name, url, folder, root, size) ==
  [ID |-> id, Name |-> name, DownloadURL |-> url, Folder |-> folder, Root |-> root, Size |-> size]

\* The zero driveItem: what an object without any of the members decodes to.
ZeroItem == MkItem("", "", "", FALSE, FALSE, 0)

\* The names a directory's children are drawn from.
AllNames == <<"b", "a", "a-", "a.", "c">>

Names == {AllNames[i] : i \in 1..MaxChildren}

\* The child item with a given name: "b" is a sub-folder, the others are files.
ChildItem(n) == MkItem("id-" \o n, n, IF n = "b" THEN "" ELSE "https://dl/" \o n, n = "b", FALSE, Len(n))

\* The sequences without repetition over a set.
RECURSIVE Perms(_)
Perms(S) == IF S = {} THEN {<<>>} ELSE UNION {{<<x>> \o p : p \in Perms(S \ {x})} : x \in S}

\* ---------------------------------------------------------------- transport
\* What http.Client.Do and the reading of the response body can produce for one
\* request:
\*   err    "" when Do returned a response, "ctx" when Do failed because the
\*          request's context is done, "net" for any other transport failure;
\*   code   the status code;
\*   hdr    the response header;
\*   body   kind "garbage" (not the expected JSON), "cut" (the context expired
\*          while the body was read), "null" (JSON null) or "object"; for an
\*          object, error is the code of its "error" member ("" when it has
\*          none), item its driveItem members, value its "value" member;
\*          a download's body has kind "bytes" and carries data.
MkBody(kind, error, item, value) ==
  [kind |-> kind, error |-> error, item |-> item, value |-> value, data |-> ""]

MkOutcome(err, code, hdr, body) == [err |-> err, code |-> code, hdr |-> hdr, body |-> body]

NoBody == MkBody("null", "", ZeroItem, <<>>)

DoErr(cause) == MkOutcome(cause, 0, "", NoBody)

StatusCodes == {200, 204, 400, 404}

Headers == {"", "Retry-After: 5"}

\* The place of an outcome no request asked for.
NoOutcome == MkOutcome("none", 0, "", NoBody)

ErrorBodies ==
  {MkBody("object", c, ZeroItem, <<>>) : c \in {ItemNotFoundErrorCode, ActivityLimitReachedErrorCode}}

\* The items a resolve response can describe.
ResolveItems ==
  { MkItem("r", "root", "", TRUE, TRUE, 62),
    MkItem("f1", "a", "", TRUE, FALSE, 29),
    MkItem("", "a", "", TRUE, FALSE, 29),
    MkItem("x", "a", "https://dl/a", FALSE, FALSE, 9),
    MkItem("x", "a", "", FALSE, FALSE, 9) }

ResolveBodies ==
  {MkBody("object", "", it, <<>>) : it \in ResolveItems}
    \cup ErrorBodies
    \cup {MkBody("object", "", ZeroItem, <<>>), NoBody, MkBody("garbage", "", ZeroItem, <<>>)}

\* The listings of a directory: its children (any subset of Names) in any
\* order.
Listings == UNION {Perms(S) : S \in SUBSET Names}

\* The bodies a children listing can have.
ListBodies ==
  {MkBody("object", "", ZeroItem, [i \in 1..Len(p) |-> ChildItem(p[i])]) : p \in Listings}
    \cup ErrorBodies
    \cup {NoBody, MkBody("garbage", "", ZeroItem, <<>>)}

CutBody == MkBody("cut", "", ZeroItem, <<>>)

\* The state of the context a request carries: "none" for the background
\* context, "live" for a context that can still expire, "done" once it is
\* cancelled or past its deadline.
\* Outcomes of a request whose body is one of bodies: a request whose context
\* is done fails in Do; one whose context is live may be cut short by it.
Outcomes(ctxst, bodies) ==
  IF ctxst = "done" THEN {DoErr("ctx")}
  ELSE {DoErr("net")}
       \cup {MkOutcome("", c, "", b) : c \in StatusCodes, b \in bodies \ ErrorBodies}
       \cup {MkOutcome("", c, h, b) : c \in StatusCodes, h \in Headers, b \in bodies \cap ErrorBodies}
       \cup (IF ctxst = "live"
             THEN {DoErr("ctx")} \cup {MkOutcome("", c, "", CutBody) : c \in StatusCodes}
             ELSE {})

\* Whether the outcome is one the context's expiry caused.
ExpiredBy(o) == o.err = "ctx" \/ o.body.kind = "cut"

\* ---------------------------------------------------------------- doRequest
\* The error client.Do returns.
DoError(o) == URLError(IF o.err = "ctx" THEN ContextErrMsg ELSE "connection refused")

\* doRequest on the outcome of client.Do(req.WithContext(ctx)): the error it
\* returns, and whether it stored a non-nil value in *target.
doRequestErrorStatusAbove400(o) ==
  IF o.err # "" THEN [err |-> DoError(o), present |-> FALSE]
  ELSE IF o.code > 400
  THEN IF o.body.kind \in {"garbage", "cut"}
       THEN [err |-> ErrorsNew("unexpected error: " \o StatusText(o.code)), present |-> FALSE]
       ELSE IF o.body.kind = "object" /\ o.body.error # ""
       THEN [err |-> OneDriveAPIError(o.body.error, o.hdr), present |-> FALSE]
       ELSE [err |-> ErrorsNew("unexpected error: " \o StatusText(o.code)), present |-> FALSE]
  ELSE IF o.code # 204
  THEN CASE o.body.kind = "garbage" -> [err |-> JSONError, present |-> FALSE]
         [] o.body.kind = "cut" -> [err |-> ContextErr, present |-> FALSE]
         [] o.body.kind = "null" -> [err |-> NilErr, present |-> FALSE]
         [] OTHER -> [err |-> NilErr, present |-> TRUE]
  ELSE [err |-> NilErr, present |-> FALSE]

doRequest(o) ==
  IF o.err # "" THEN [err |-> DoError(o), present |-> FALSE]
  ELSE IF o.code >= 400
  THEN IF o.body.kind \in {"garbage", "cut"}
       THEN [err |-> ErrorsNew("unexpected error: " \o StatusText(o.code)), present |-> FALSE]
       ELSE IF o.body.kind = "object" /\ o.body.error # ""
       THEN [err |-> OneDriveAPIError(o.body.error, o.hdr), present |-> FALSE]
       ELSE [err |-> ErrorsNew("unexpected error: " \o StatusText(o.code)), present |-> FALSE]
  ELSE IF o.code # 204
  THEN CASE o.body.kind = "garbage" -> [err |-> JSONError, present |-> FALSE]
         [] o.body.kind = "cut" -> [err |-> ContextErr, present |-> FALSE]
         [] o.body.kind = "null" -> [err |-> NilErr, present |-> FALSE]
         [] OTHER -> [err |-> NilErr, present |-> TRUE]
  ELSE [err |-> NilErr, present |-> FALSE]

\* A request as it is handed to the client: what it is for, the URL reference
\* it was built from (relative to baseURL for the API requests), its query, and
\* the context it carries.
MkRequest(kind, ref, query, ctx) == [kind |-> kind, ref |-> ref, query |-> query, ctx |-> ctx]

\* The URL a request is sent to.
RequestURL(req) ==
  (IF req.kind = "download" THEN req.ref ELSE newRequest(req.ref))
    \o (IF req.query = "" THEN "" ELSE "?" \o req.query)

\* getDriveItemsByPath: the request it issues.
getDriveItemsByPathRequest(ctx, driveID, itemPath) ==
  MkRequest("resolve", getDriveItemsByPathURL(driveID, itemPath), "", ctx)

\* getDriveItemsByPath: (driveItem, err) from the outcome of its request;
\* present is whether the returned pointer is non-nil.
getDriveItemsByPath(o) ==
  LET r == doRequest(o)
  IN IF r.err # NilErr THEN [err |-> r.err, present |-> FALSE, item |-> ZeroItem]
     ELSE [err |-> NilErr, present |-> r.present,
           item |-> IF r.present THEN o.body.item ELSE ZeroItem]

\* listDriveItems: the request it issues.
listDriveItemsRequest(ctx, driveID, folderID) ==
  MkRequest("list", listDriveItemsURL(driveID, folderID), listDriveItemsQuery, ctx)

\* listDriveItems: (*driveItemsResponse, err) from the outcome of its request;
\* items is the response's DriveItems.
listDriveItems(o) ==
  LET r == doRequest(o)
  IN IF r.err # NilErr THEN [err |-> r.err, present |-> FALSE, items |-> <<>>]
     ELSE [err |-> NilErr, present |-> r.present,
           items |-> IF r.present THEN o.body.value ELSE <<>>]

\* The bodies a download can have: the file's bytes on success, the server's
\* error page otherwise.
DownloadBody(code) ==
  [kind |-> "bytes", error |-> "", item |-> ZeroItem, value |-> <<>>,
   data |-> IF code >= 400 THEN "<error page>" ELSE "file bytes"]

DownloadCodes == {200, 404}

\* Outcomes of the download request.
DownloadOutcomes(ctxst) ==
  IF ctxst = "done" THEN {DoErr("ctx")}
  ELSE {DoErr("net")}
       \cup {MkOutcome("", c, "", DownloadBody(c)) : c \in DownloadCodes}
       \cup (IF ctxst = "live"
             THEN {DoErr("ctx")} \cup {MkOutcome("", c, "", CutBody) : c \in DownloadCodes}
             ELSE {})

\* ------------------------------------------------------------ file metadata
\* fs.FileMode values, written as FileMode.String() prints them:
\* 0o555 and 0o555 + fs.ModeDir.
ModePerm == "-r-xr-xr-x"

ModePermDir == "dr-xr-xr-x"

\* fileInfo
MkFileInfo(isDir, name, mode, size) == [isDir |-> isDir, name |-> name, mode |-> mode, size |-> size]

NoInfo == MkFileInfo(FALSE, "", "", 0)

\* The fileInfo FS.Open and FS.Stat build from a resolved item.
ItemFileInfo(item) ==
  IF item.Folder
  THEN MkFileInfo(TRUE, IF item.Root THEN "." ELSE item.Name, ModePermDir, item.Size)
  ELSE MkFileInfo(FALSE, item.Name, ModePerm, item.Size)

\* The dirEntry openDir.ReadDir builds from a listed item.
ItemDirEntry(item) ==
  MkFileInfo(item.Folder, item.Name, IF item.Folder THEN ModePermDir ELSE ModePerm, item.Size)

\* ------------------------------------------------------- directory handles
\* openDir: once is the state of getItemsOnce ("new" before the first Do,
\* "done" after it), items the cached listing, offset the cursor.
MkDir(info, ctx, driveID, dirID, once, items, offset) ==
  [kind |-> "dir", info |-> info, ctx |-> ctx, driveID |-> driveID, dirID |-> dirID,
   once |-> once, items |-> items, offset |-> offset, data |-> NoBody, code |-> 0]

\* openFile: the metadata and the download response its data is the body of.
MkFile(info, code, body) ==
  [kind |-> "file", info |-> info, ctx |-> "", driveID |-> "", dirID |-> "",
   once |-> "", items |-> <<>>, offset |-> 0, data |-> body, code |-> code]

NoFile ==
  [kind |-> "none", info |-> NoInfo, ctx |-> "", driveID |-> "", dirID |-> "",
   once |-> "", items |-> <<>>, offset |-> 0, data |-> NoBody, code |-> 0]

\* Insertion of e into a list sorted by strings.Compare of the names.
RECURSIVE InsertByName(_, _)
InsertByName(e, list) ==
  IF list = <<>> THEN <<e>>
  ELSE IF Compare(e.name, Head(list).name) <= 0 THEN <<e>> \o list
  ELSE <<Head(list)>> \o InsertByName(e, Tail(list))

\* slices.SortFunc(list, by strings.Compare of the names)
RECURSIVE SortByName(_)
SortByName(list) ==
  IF list = <<>> THEN <<>> ELSE InsertByName(Head(list), SortByName(Tail(list)))

\* The part of openDir.ReadDir after the fetch: the batch of n entries at the
\* cursor, for the n the code computes from count.
BatchSizeAllRemaining(d, count) == Len(d.items) - d.offset

BatchSize(d, count) ==
  LET n == Len(d.items) - d.offset
  IN IF count > 0 /\ n > count THEN count ELSE n

BatchUnsorted(d, count) ==
  [i \in 1..BatchSize(d, count) |-> ItemDirEntry(d.items[d.offset + i])]

Batch(d, count) ==
  SortByName([i \in 1..BatchSize(d, count) |-> ItemDirEntry(d.items[d.offset + i])])

\* What a call returns: the error, whether it panicked, the value and the
\* requests it issued.
MkReturn(err, panic, val, net) == [err |-> err, panic |-> panic, val |-> val, net |-> net]

\* d.getItemsOnce.Do(f): whether Do runs f, given the state of the Once.
OnceDoAlways(once) == TRUE

OnceDo(once) == once = "new"

\* openDir.ReadDir(count) on handle d, run alone; o is the outcome of the
\* listing request if the call issues it.  dir is the handle afterwards.
DirReadDir(d, count, o) ==
  LET fetch == OnceDo(d.once)
      r == listDriveItems(o)
      net == IF fetch THEN <<listDriveItemsRequest(d.ctx, d.driveID, d.dirID)>> ELSE <<>>
      err == IF fetch THEN r.err ELSE NilErr
      d1 == IF fetch
            THEN [d EXCEPT !.once = "done",
                           !.items = IF r.err = NilErr /\ r.present THEN r.items ELSE @]
            ELSE d
      n == Len(d1.items) - d1.offset
  IN IF fetch /\ r.err = NilErr /\ ~r.present
     THEN [dir |-> d1, ret |-> MkReturn(NilErr, TRUE, <<>>, net)]
     ELSE IF err # NilErr THEN [dir |-> d1, ret |-> MkReturn(err, FALSE, <<>>, net)]
     ELSE IF n = 0 /\ count > 0 THEN [dir |-> d1, ret |-> MkReturn(EOF, FALSE, <<>>, net)]
     ELSE [dir |-> [d1 EXCEPT !.offset = @ + BatchSize(d1, count)],
           ret |-> MkReturn(NilErr, FALSE, Batch(d1, count), net)]

\* openDir.Read: directories are not byte streams.
DirRead(d) == MkReturn(PathError("read", d.info.name, "invalid argument"), FALSE, "", <<>>)

\* openFile.Read until EOF (io.Copy, io.ReadAll): the body's bytes, or the
\* error that cut the body short.
FileReadAll(f) ==
  IF f.data.kind = "cut" THEN MkReturn(ContextErr, FALSE, "", <<>>)
  ELSE MkReturn(NilErr, FALSE, f.data.data, <<>>)

\* ------------------------------------------------------------------- facade
\* FS: the context it is bound to and the drive it addresses (the HTTP client
\* is the transport above).
MkFS(ctx, driveID) == [ctx |-> ctx, driveID |-> driveID]

\* OpenFS
OpenFS(driveID) == MkFS("background", driveID)

\* FS.Context: a new FS bound to ctx; a nil ctx is the background context.
FSContext(f, ctx) == MkFS(IF ctx = "nil" THEN "background" ELSE ctx, f.driveID)

\* The path FS.Open and FS.Stat resolve for a valid name.
ItemPath(name) == TrimPrefix(IF name = "." THEN "/" ELSE name, "/")

\* The error FS.Open and FS.Stat return for a failed resolve.
ResolveErrorAnyAPIError(err) ==
  IF err.k = "OneDriveAPIError" THEN ErrNotExist ELSE err

ResolveError(err) ==
  IF err.k = "OneDriveAPIError" /\ err.msg = ItemNotFoundErrorCode THEN ErrNotExist ELSE err

\* The resolve request of FS.Open and FS.Stat, carrying the facade's context.
ResolveRequestNoContext(f, name) ==
  getDriveItemsByPathRequest("background", f.driveID, ItemPath(name))

ResolveRequest(f, name) ==
  getDriveItemsByPathRequest(f.ctx, f.driveID, ItemPath(name))

\* The download request of FS.Open.
DownloadRequest(f, item) == MkRequest("download", item.DownloadURL, "", f.ctx)

\* Whether FS.Open(name) gets as far as the download when its resolve request
\* has outcome o1.
NeedsDownload(name, o1) ==
  LET r == getDriveItemsByPath(o1)
  IN /\ validatePath(name) = ""
     /\ r.err = NilErr /\ r.present
     /\ ~r.item.Folder /\ r.item.DownloadURL # ""

\* FS.Open(origName); o1 is the outcome of the resolve request and o2 that of
\* the download request, each read only if the request is issued.
FSOpen(f, origName, o1, o2) ==
  LET msg == validatePath(origName)
      req1 == ResolveRequest(f, origName)
      r == getDriveItemsByPath(o1)
      item == r.item
  IN IF msg # "" THEN MkReturn(PathError("open", origName, msg), FALSE, NoFile, <<>>)
     ELSE IF r.err # NilErr THEN MkReturn(ResolveError(r.err), FALSE, NoFile, <<req1>>)
     ELSE IF ~r.present THEN MkReturn(NilErr, TRUE, NoFile, <<req1>>)
     ELSE IF item.Folder
     THEN MkReturn(NilErr, FALSE,
                   MkDir(ItemFileInfo(item), f.ctx, f.driveID, item.ID, "new", <<>>, 0),
                   <<req1>>)
     ELSE IF item.DownloadURL = ""
     THEN MkReturn(ErrorsNew("the file is not downloadable, because the API didn't provide download URL"),
                   FALSE, NoFile, <<req1>>)
     ELSE IF o2.err # ""
     THEN MkReturn(DoError(o2), FALSE, NoFile, <<req1, DownloadRequest(f, item)>>)
     ELSE MkReturn(NilErr, FALSE, MkFile(ItemFileInfo(item), o2.code, o2.body),
                   <<req1, DownloadRequest(f, item)>>)

\* FS.Stat(name)
FSStat(f, name, o1) ==
  LET msg == validatePath(name)
      req1 == ResolveRequest(f, name)
      r == getDriveItemsByPath(o1)
  IN IF msg # "" THEN MkReturn(PathError("open", name, msg), FALSE, NoInfo, <<>>)
     ELSE IF r.err # NilErr THEN MkReturn(ResolveError(r.err), FALSE, NoInfo, <<req1>>)
     ELSE IF ~r.present THEN MkReturn(NilErr, TRUE, NoInfo, <<req1>>)
     ELSE MkReturn(NilErr, FALSE, ItemFileInfo(r.item), <<req1>>)

\* Whether FS.ReadDir(name) gets as far as the listing.
NeedsList(name, o1) ==
  LET r == getDriveItemsByPath(o1)
  IN validatePath(name) = "" /\ r.err = NilErr /\ r.present /\ r.item.Folder

\* FS.ReadDir(name); o3 is the outcome of the listing request.
FSReadDir(f, name, o1, o2, o3) ==
  LET opened == FSOpen(f, name, o1, o2)
      read == DirReadDir(opened.val, -1, o3).ret
  IN IF opened.panic \/ opened.err # NilErr
     THEN MkReturn(opened.err, opened.panic, <<>>, opened.net)
     ELSE IF opened.val.kind # "dir"
     THEN MkReturn(PathError("readdir", name, "not implemented"), FALSE, <<>>, opened.net)
     ELSE MkReturn(read.err, read.panic, read.val, opened.net \o read.net)

\* FS.ReadFile(name)
FSReadFile(f, name, o1, o2) ==
  LET opened == FSOpen(f, name, o1, o2)
      read == IF opened.val.kind = "dir" THEN DirRead(opened.val) ELSE FileReadAll(opened.val)
  IN IF opened.panic \/ opened.err # NilErr
     THEN MkReturn(opened.err, opened.panic, "", opened.net)
     ELSE MkReturn(read.err, FALSE, IF read.err = NilErr THEN read.val ELSE "", opened.net)

\* ==================================================================== state
VARIABLES
  fsys,      \* the facade the caller uses
  ctxState,  \* "live" or "done": the state of the cancellable context "c1"
  last,      \* the call that has returned and whose results the caller holds
  dir,       \* the directory handle the caller keeps open (NoFile when none)
  mode,      \* how dir has been read so far, and what the reads returned
  drained,   \* the names a handle drained by ReadDir(1) calls returned, in order
  fetchErr,  \* the error of the one fetch of dir, once it has completed
  listCount, \* the listing requests issued for dir since it was opened
  ncalls,    \* the ReadDir calls started on dir since it was opened
  calls      \* the concurrent ReadDir calls on dir, by caller

vars == <<fsys, ctxState, last, dir, mode, drained, fetchErr, listCount, ncalls, calls>>

handleVars == <<dir, mode, drained>>

concVars == <<fetchErr, listCount, ncalls, calls>>

\* ------------------------------------------------------------------- inputs
PathChars == {"/", ".", "a", "\\"}

RECURSIVE PathsUpTo(_)
PathsUpTo(n) ==
  IF n = 0 THEN {""}
  ELSE PathsUpTo(n - 1) \cup {s \o c : s \in PathsUpTo(n - 1), c \in PathChars}

Paths == PathsUpTo(MaxPathLen)

DriveIDs == {"", "b!1"}

Contexts == {"nil", "background", "c1"}

Counts == {-1, 0, 1, 2}

Callers == {1, 2}

\* The state of the context a request carries.
CtxStatus(ctx) == IF ctx = "background" THEN "none" ELSE ctxState

\* What the transport does with a request.
Transport(req, bodies) ==
  IF req.kind = "download" THEN DownloadOutcomes(CtxStatus(req.ctx))
  ELSE Outcomes(CtxStatus(req.ctx), bodies)

\* A returned call: the operation, its argument, the state of the facade's
\* context when it was called, the outcomes of its requests, the handle it was
\* called on, and what it returned.
MkCall(op, arg, ctxst, in, pre, ret) ==
  [op |-> op, arg |-> arg, ctxst |-> ctxst, in |-> in, pre |-> pre, ret |-> ret]

Idle == MkCall("idle", "", "", <<>>, NoFile, MkReturn(NilErr, FALSE, "", <<>>))

\* No read of the handle yet.
Fresh == [m |-> "fresh", out |-> <<>>]

\* No handle has been drained yet.
NotDrained == [ok |-> FALSE, dirID |-> "", items |-> <<>>, out |-> <<>>]

\* A ReadDir call of a concurrent caller: where it is, its count, its local
\* err, n and list, the loop index i, the value of d.offset it read for
\* d.offset += n, whether it was called before the fetch had completed, and
\* what it returned.
NoCallState == [pc |-> "idle", count |-> 0, err |-> NilErr, n |-> 0, i |-> 0, tmp |-> 0,
                list |-> <<>>, raced |-> FALSE, ret |-> MkReturn(NilErr, FALSE, <<>>, <<>>)]

Init ==
  /\ fsys \in {OpenFS(d) : d \in DriveIDs}
  /\ ctxState = "live"
  /\ last = Idle
  /\ dir = NoFile
  /\ mode = Fresh
  /\ drained = NotDrained
  /\ fetchErr = NilErr
  /\ listCount = 0
  /\ ncalls = 0
  /\ calls = [c \in Callers |-> NoCallState]

\* The context expires if an outcome says it did.
Expire(os) ==
  ctxState' = IF \E i \in 1..Len(os) : ExpiredBy(os[i]) THEN "done" ELSE ctxState

\* ------------------------------------------------------------ facade actions
\* fsys = fsys.Context(ctx)
Context(ctx) ==
  /\ last.op = "idle"
  /\ fsys' = FSContext(fsys, ctx)
  /\ fsys' # fsys
  /\ UNCHANGED <<ctxState, last, handleVars, concVars>>

\* The context "c1" is cancelled or reaches its deadline.
Cancel ==
  /\ ctxState = "live"
  /\ ctxState' = "done"
  /\ UNCHANGED <<fsys, last, handleVars, concVars>>

\* The caller drops the results of the returned call.
Return ==
  /\ last.op # "idle"
  /\ last' = Idle
  /\ UNCHANGED <<fsys, ctxState, handleVars, concVars>>

\* The outcomes the resolve request of Open(name) or Stat(name) can have; no
\* request, and so no outcome, for a path that validatePath rejects.
ResolveOutcomes(name) ==
  IF validatePath(name) = "" THEN Transport(ResolveRequest(fsys, name), ResolveBodies)
  ELSE {NoOutcome}

\* The outcomes of the download request of Open(name), if it gets that far.
OpenDownloadOutcomes(name, o1) ==
  IF NeedsDownload(name, o1) /\ ~ExpiredBy(o1)
  THEN Transport(DownloadRequest(fsys, getDriveItemsByPath(o1).item), {})
  ELSE IF NeedsDownload(name, o1) THEN {DoErr("ctx")}
  ELSE {NoOutcome}

\* The outcomes of the listing request of ReadDir(name), if it gets that far.
ReadDirListOutcomes(name, o1) ==
  IF NeedsList(name, o1)
  THEN Transport(listDriveItemsRequest(fsys.ctx, fsys.driveID, getDriveItemsByPath(o1).item.ID),
                 ListBodies)
  ELSE {NoOutcome}

\* f, err := fsys.Open(name)
Open(name) ==
  /\ last.op = "idle"
  /\ \E o1 \in ResolveOutcomes(name) : \E o2 \in OpenDownloadOutcomes(name, o1) :
       /\ last' = MkCall("Open", name, CtxStatus(fsys.ctx), <<o1, o2>>, NoFile,
                         FSOpen(fsys, name, o1, o2))
       /\ Expire(<<o1, o2>>)
  /\ UNCHANGED <<fsys, handleVars, concVars>>

\* info, err := fsys.Stat(name)
Stat(name) ==
  /\ last.op = "idle"
  /\ \E o1 \in ResolveOutcomes(name) :
       /\ last' = MkCall("Stat", name, CtxStatus(fsys.ctx), <<o1>>, NoFile,
                         FSStat(fsys, name, o1))
       /\ Expire(<<o1>>)
  /\ UNCHANGED <<fsys, handleVars, concVars>>

\* entries, err := fsys.ReadDir(name)
ReadDir(name) ==
  /\ last.op = "idle"
  /\ \E o1 \in ResolveOutcomes(name) : \E o2 \in OpenDownloadOutcomes(name, o1) :
     \E o3 \in ReadDirListOutcomes(name, o1) :
       /\ last' = MkCall("ReadDir", name, CtxStatus(fsys.ctx), <<o1, o2, o3>>, NoFile,
                         FSReadDir(fsys, name, o1, o2, o3))
       /\ Expire(<<o1, o2, o3>>)
  /\ UNCHANGED <<fsys, handleVars, concVars>>

\* data, err := fsys.ReadFile(name)
ReadFile(name) ==
  /\ last.op = "idle"
  /\ \E o1 \in ResolveOutcomes(name) : \E o2 \in OpenDownloadOutcomes(name, o1) :
       /\ last' = MkCall("ReadFile", name, CtxStatus(fsys.ctx), <<o1, o2>>, NoFile,
                         FSReadFile(fsys, name, o1, o2))
       /\ Expire(<<o1, o2>>)
  /\ UNCHANGED <<fsys, handleVars, concVars>>

\* entries, err := f.ReadDir(count) on the directory handle the last Open
\* returned: the handle's first ReadDir.
OpenedReadDir(count) ==
  /\ last.op = "Open" /\ ~last.ret.panic /\ last.ret.val.kind = "dir"
  /\ LET d == last.ret.val
     IN \E o \in Transport(listDriveItemsRequest(d.ctx, d.driveID, d.dirID), ListBodies) :
          /\ last' = MkCall("DirReadDir", count, CtxStatus(d.ctx), <<o>>, d,
                            DirReadDir(d, count, o).ret)
          /\ Expire(<<o>>)
  /\ UNCHANGED <<fsys, handleVars, concVars>>

Next ==
  \/ \E ctx \in Contexts : Context(ctx)
  \/ Cancel
  \/ Return
  \/ \E name \in Paths : Open(name)
  \/ \E name \in Paths : Stat(name)
  \/ \E name \in Paths : ReadDir(name)
  \/ \E name \in Paths : ReadFile(name)
  \/ \E count \in {-1, 1} : OpenedReadDir(count)

Spec == Init /\ [][Next]_vars

\* ------------------------------------------------------------ handle actions
\* The directories the caller opens handles of.
DirPaths == {".", "a"}

\* The outcomes of the listing request of a ReadDir on handle d: the request
\* is issued only by the call that finds the Once unused.
HandleListOutcomes(d) ==
  IF OnceDo(d.once)
  THEN Transport(listDriveItemsRequest(d.ctx, d.driveID, d.dirID), ListBodies)
  ELSE {NoOutcome}

\* How the handle has been read once ReadDir(count) has returned ret: "ones"
\* while every read so far was a ReadDir(1) that returned an entry, "drained"
\* when such a run ends in end-of-sequence, "all" after one ReadDir(-1) on a
\* fresh handle, "other" for the rest.
ModeAfter(m, count, ret) ==
  LET ok == ret.err = NilErr /\ ~ret.panic
      names == [i \in 1..Len(ret.val) |-> ret.val[i].name]
  IN IF m.m \in {"fresh", "ones"} /\ count = 1 /\ ok
     THEN [m |-> "ones", out |-> m.out \o names]
     ELSE IF m.m \in {"fresh", "ones"} /\ count = 1 /\ ret.err = EOF
     THEN [m |-> "drained", out |-> m.out]
     ELSE IF m.m = "fresh" /\ count < 0 /\ ok
     THEN [m |-> "all", out |-> names]
     ELSE [m |-> "other", out |-> <<>>]

\* f, err := fsys.Open(name) by a caller that holds no handle; it keeps f when
\* f is a directory.
OpenDir(name) ==
  /\ last.op = "idle"
  /\ dir.kind = "none"
  /\ \E o1 \in ResolveOutcomes(name) : \E o2 \in OpenDownloadOutcomes(name, o1) :
       LET ret == FSOpen(fsys, name, o1, o2)
           isDir == ret.err = NilErr /\ ~ret.panic /\ ret.val.kind = "dir"
       IN /\ last' = MkCall("Open", name, CtxStatus(fsys.ctx), <<o1, o2>>, NoFile, ret)
          /\ dir' = IF isDir THEN ret.val ELSE dir
          /\ mode' = IF isDir THEN Fresh ELSE mode
          /\ Expire(<<o1, o2>>)
  /\ UNCHANGED <<fsys, drained, concVars>>

\* entries, err := f.ReadDir(count) on the handle the caller keeps.
HandleReadDir(count) ==
  /\ last.op = "idle"
  /\ dir.kind = "dir"
  /\ \E o \in HandleListOutcomes(dir) :
       LET r == DirReadDir(dir, count, o)
           m == ModeAfter(mode, count, r.ret)
       IN /\ last' = MkCall("DirReadDir", count, CtxStatus(dir.ctx), <<o>>, dir, r.ret)
          /\ dir' = r.dir
          /\ mode' = m
          /\ drained' = IF m.m = "drained"
                        THEN [ok |-> TRUE, dirID |-> dir.dirID, items |-> r.dir.items, out |-> m.out]
                        ELSE drained
          /\ Expire(<<o>>)
  /\ UNCHANGED <<fsys, concVars>>

\* info, err := f.Stat() on the handle the caller keeps.
HandleStat ==
  /\ last.op = "idle"
  /\ dir.kind = "dir"
  /\ last' = MkCall("DirStat", "", CtxStatus(dir.ctx), <<>>, dir,
                    MkReturn(NilErr, FALSE, dir.info, <<>>))
  /\ UNCHANGED <<fsys, ctxState, handleVars, concVars>>

\* n, err := f.Read(buf) on the handle the caller keeps.
HandleRead ==
  /\ last.op = "idle"
  /\ dir.kind = "dir"
  /\ last' = MkCall("DirRead", "", CtxStatus(dir.ctx), <<>>, dir, DirRead(dir))
  /\ UNCHANGED <<fsys, ctxState, handleVars, concVars>>

\* err := f.Close() on the handle the caller keeps: nothing changes, and the
\* handle can still be used.
HandleClose ==
  /\ last.op = "idle"
  /\ dir.kind = "dir"
  /\ last' = MkCall("DirClose", "", CtxStatus(dir.ctx), <<>>, dir,
                    MkReturn(NilErr, FALSE, "", <<>>))
  /\ UNCHANGED <<fsys, ctxState, handleVars, concVars>>

\* Whether no ReadDir call is running on the handle.
Quiet == \A c \in Callers : calls[c].pc = "idle"

\* The program lets go of the handle it keeps, once no call is running on it.
Forget ==
  /\ last.op = "idle"
  /\ dir.kind = "dir"
  /\ Quiet
  /\ dir' = NoFile
  /\ mode' = Fresh
  /\ UNCHANGED <<fsys, ctxState, last, drained, concVars>>

NextDir ==
  \/ \E name \in DirPaths : OpenDir(name)
  \/ \E count \in Counts : HandleReadDir(count)
  \/ HandleStat
  \/ HandleRead
  \/ HandleClose
  \/ Forget
  \/ Return

SpecDir == Init /\ [][NextDir]_vars

\* -------------------------------------------------------- concurrent callers
\* The call of caller c returns ret.
Returned(c, ret) == [calls EXCEPT ![c].pc = "returned", ![c].ret = ret]

\* f, err := fsys.Open(name) by a program that holds no handle; it keeps f,
\* when f is a directory, to share it among the callers.
ConcOpen(name) ==
  /\ last.op = "idle"
  /\ dir.kind = "none"
  /\ \E o1 \in ResolveOutcomes(name) : \E o2 \in OpenDownloadOutcomes(name, o1) :
       LET ret == FSOpen(fsys, name, o1, o2)
           isDir == ret.err = NilErr /\ ~ret.panic /\ ret.val.kind = "dir"
       IN /\ last' = MkCall("Open", name, CtxStatus(fsys.ctx), <<o1, o2>>, NoFile, ret)
          /\ dir' = IF isDir THEN ret.val ELSE dir
          /\ Expire(<<o1, o2>>)
  /\ fetchErr' = NilErr
  /\ listCount' = 0
  /\ ncalls' = 0
  /\ UNCHANGED <<fsys, mode, drained, calls>>

\* info, err := f.Stat(), at any time.
ConcStat ==
  /\ last.op = "idle"
  /\ dir.kind = "dir"
  /\ last' = MkCall("DirStat", "", CtxStatus(dir.ctx), <<>>, dir,
                    MkReturn(NilErr, FALSE, dir.info, <<>>))
  /\ UNCHANGED <<fsys, ctxState, handleVars, concVars>>

\* err := f.Close(), at any time: nothing changes.
ConcClose ==
  /\ last.op = "idle"
  /\ dir.kind = "dir"
  /\ last' = MkCall("DirClose", "", CtxStatus(dir.ctx), <<>>, dir,
                    MkReturn(NilErr, FALSE, "", <<>>))
  /\ UNCHANGED <<fsys, ctxState, handleVars, concVars>>

\* Caller c calls f.ReadDir(count): var err error.
CallReadDir(c, count) ==
  /\ last.op = "idle"
  /\ dir.kind = "dir"
  /\ calls[c].pc = "idle"
  /\ ncalls < MaxReads
  /\ calls' = [calls EXCEPT ![c] = [NoCallState EXCEPT !.pc = "do", !.count = count,
                                                       !.raced = dir.once # "done"]]
  /\ ncalls' = ncalls + 1
  /\ UNCHANGED <<fsys, ctxState, last, handleVars, fetchErr, listCount>>

\* d.getItemsOnce.Do(...): the caller waits while another runs the function,
\* runs it itself if the Once is unused, and goes on otherwise.  Running it
\* starts with the listing request.
OnceEnter(c) ==
  /\ calls[c].pc = "do"
  /\ dir.once # "running"
  /\ IF OnceDo(dir.once)
     THEN /\ dir' = [dir EXCEPT !.once = "running"]
          /\ calls' = [calls EXCEPT ![c].pc = "fetch"]
          /\ listCount' = listCount + 1
     ELSE /\ calls' = [calls EXCEPT ![c].pc = "after"]
          /\ UNCHANGED <<dir, listCount>>
  /\ UNCHANGED <<fsys, ctxState, last, mode, drained, fetchErr, ncalls>>

\* items, err = listDriveItems(...); if err == nil { d.items = items.DriveItems }
\* and the Once is done, also when items is nil and the function panics.
FetchDone(c) ==
  /\ calls[c].pc = "fetch"
  /\ \E o \in Transport(listDriveItemsRequest(dir.ctx, dir.driveID, dir.dirID), ListBodies) :
       LET r == listDriveItems(o)
           req == listDriveItemsRequest(dir.ctx, dir.driveID, dir.dirID)
       IN /\ IF r.err = NilErr /\ ~r.present
             THEN /\ calls' = Returned(c, MkReturn(NilErr, TRUE, <<>>, <<req>>))
                  /\ dir' = [dir EXCEPT !.once = "done"]
             ELSE /\ calls' = [calls EXCEPT ![c].pc = "after", ![c].err = r.err,
                                            ![c].ret = MkReturn(NilErr, FALSE, <<>>, <<req>>)]
                  /\ dir' = [dir EXCEPT !.once = "done",
                                        !.items = IF r.err = NilErr THEN r.items ELSE @]
          /\ fetchErr' = r.err
          /\ Expire(<<o>>)
  /\ UNCHANGED <<fsys, last, mode, drained, listCount, ncalls>>

\* if err != nil { return nil, err }; n := len(d.items) - d.offset; the
\* end-of-sequence return; the cap of n by count; list := make(..., n).
AfterOnce(c) ==
  /\ calls[c].pc = "after"
  /\ LET call == calls[c]
         n == Len(dir.items) - dir.offset
         k == IF call.count > 0 /\ n > call.count THEN call.count ELSE n
     IN calls' =
          IF call.err # NilErr THEN Returned(c, MkReturn(call.err, FALSE, <<>>, call.ret.net))
          ELSE IF n = 0 /\ call.count > 0
          THEN Returned(c, MkReturn(EOF, FALSE, <<>>, call.ret.net))
          ELSE IF k < 0 THEN Returned(c, MkReturn(NilErr, TRUE, <<>>, call.ret.net))
          ELSE [calls EXCEPT ![c].pc = "copy", ![c].n = k, ![c].i = 0, ![c].list = <<>>]
  /\ UNCHANGED <<fsys, ctxState, last, handleVars, fetchErr, listCount, ncalls>>

\* One round of the loop: item := d.items[d.offset+i]; list[i] = ...; an index
\* past the end panics.
Copy(c) ==
  /\ calls[c].pc = "copy"
  /\ calls[c].i < calls[c].n
  /\ LET call == calls[c]
         j == dir.offset + call.i + 1
     IN calls' =
          IF j > Len(dir.items)
          THEN Returned(c, MkReturn(NilErr, TRUE, <<>>, call.ret.net))
          ELSE [calls EXCEPT ![c].i = @ + 1,
                             ![c].list = Append(@, ItemDirEntry(dir.items[j]))]
  /\ UNCHANGED <<fsys, ctxState, last, handleVars, fetchErr, listCount, ncalls>>

\* d.offset += n, the read.
AdvanceRead(c) ==
  /\ calls[c].pc = "copy"
  /\ calls[c].i = calls[c].n
  /\ calls' = [calls EXCEPT ![c].pc = "advance", ![c].tmp = dir.offset]
  /\ UNCHANGED <<fsys, ctxState, last, handleVars, fetchErr, listCount, ncalls>>

\* d.offset += n, the write; then the sort and return list, nil.
AdvanceWrite(c) ==
  /\ calls[c].pc = "advance"
  /\ dir' = [dir EXCEPT !.offset = calls[c].tmp + calls[c].n]
  /\ calls' = Returned(c, MkReturn(NilErr, FALSE, SortByName(calls[c].list), calls[c].ret.net))
  /\ UNCHANGED <<fsys, ctxState, last, mode, drained, fetchErr, listCount, ncalls>>

\* Caller c takes the result of its call.
ConcReturn(c) ==
  /\ calls[c].pc = "returned"
  /\ calls' = [calls EXCEPT ![c] = NoCallState]
  /\ UNCHANGED <<fsys, ctxState, last, handleVars, fetchErr, listCount, ncalls>>

NextConc ==
  \/ \E name \in DirPaths : ConcOpen(name)
  \/ ConcStat
  \/ ConcClose
  \/ Forget
  \/ Return
  \/ \E c \in Callers, count \in {-1, 1} : CallReadDir(c, count)
  \/ \E c \in Callers : OnceEnter(c)
  \/ \E c \in Callers : FetchDone(c)
  \/ \E c \in Callers : AfterOnce(c)
  \/ \E c \in Callers : Copy(c)
  \/ \E c \in Callers : AdvanceRead(c)
  \/ \E c \in Callers : AdvanceWrite(c)
  \/ \E c \in Callers : ConcReturn(c)

SpecConc == Init /\ [][NextConc]_vars

\* ============================================================ facade claims
\* The calls of the facade, each of which starts with a resolve request.
FacadeOps == {"Open", "Stat", "ReadDir", "ReadFile"}

\* The names of a list of entries, in order.
NamesOf(list) == [i \in 1..Len(list) |-> list[i].name]

\* The names of a list of remote items, in order.
ItemNamesOf(items) == [i \in 1..Len(items) |-> items[i].Name]

\* The elements of a sequence.
Range(seq) == {seq[i] : i \in 1..Len(seq)}

\* Whether a path is one the facade must reject: absolute, not in canonical
\* form, or holding a backslash.
InvalidPath(path) == IsAbs(path) \/ Clean(path) # path \/ ContainsByte(path, "\\")

\* C1: Open(p) and Stat(p) of a path that is absolute, or differs from its
\* cleaned form, or contains a backslash fail with a path error naming p, and
\* issue no resolve, list or download request.
C1_InvalidPathRejected ==
  (last.op \in {"Open", "Stat"} /\ InvalidPath(last.arg))
    => /\ last.ret.err.k = "fs.PathError"
       /\ last.ret.err.path = last.arg
       /\ ~last.ret.panic
       /\ last.ret.net = <<>>

\* C1 witness: an Open that only the backslash rule rejects has returned.
C1_Witness ==
  /\ last.op = "Open"
  /\ ~IsAbs(last.arg) /\ Clean(last.arg) = last.arg /\ ContainsByte(last.arg, "\\")
  /\ last.ret.err.k = "fs.PathError"

\* The error of the resolve step of a returned facade call.
ResolveErrOf(call) == getDriveItemsByPath(call.in[1]).err

\* Whether the resolve step of a returned facade call ran and failed.
ResolveFailed(call) ==
  /\ call.op \in {"Open", "Stat", "ReadDir"}
  /\ ~InvalidPath(call.arg)
  /\ ResolveErrOf(call) # NilErr

\* C2: when the resolve step of Open, Stat or ReadDir of a valid path fails,
\* the call returns the not-exist condition exactly when the resolve error is
\* a remote API error with code itemNotFound, and returns every other resolve
\* error unchanged.
C2_ResolveErrorMapping ==
  ResolveFailed(last)
    => LET e == ResolveErrOf(last)
           notFound == e.k = "OneDriveAPIError" /\ e.msg = "itemNotFound"
       IN /\ ~last.ret.panic
          /\ (last.ret.err = ErrNotExist) <=> notFound
          /\ ~notFound => last.ret.err = e

\* C2 witness: a ReadDir whose resolve failed with another API code returned
\* that API error with its headers.
C2_Witness ==
  /\ ResolveFailed(last) /\ last.op = "ReadDir"
  /\ last.ret.err = OneDriveAPIError(ActivityLimitReachedErrorCode, "Retry-After: 5")

\* Whether a list of names is strictly ascending in byte order.
StrictlyAscending(names) ==
  \A i \in 1..(Len(names) - 1) : Compare(names[i], names[i + 1]) < 0

\* C3: a successful ReadDir(d) of the facade returns all the children the
\* service listed, strictly ascending by name, whatever order they came in.
C3_ReadDirSorted ==
  (last.op = "ReadDir" /\ last.ret.err = NilErr /\ ~last.ret.panic)
    => LET listed == ItemNamesOf(last.in[3].body.value)
           got == NamesOf(last.ret.val)
       IN /\ StrictlyAscending(got)
          /\ Range(got) = Range(listed)
          /\ Len(got) = Len(listed)

\* C3 witness: a ReadDir returned two or more entries that the service had
\* listed out of order.
C3_Witness ==
  /\ last.op = "ReadDir" /\ last.ret.err = NilErr /\ ~last.ret.panic
  /\ Len(last.ret.val) >= 2
  /\ ~StrictlyAscending(ItemNamesOf(last.in[3].body.value))

\* C8: a call that needs a request and is made when its context is already
\* cancelled or past its deadline fails with the context's error: never with
\* a remote API error, the not-exist condition or a result.  The calls are
\* the facade's Open, Stat, ReadDir and ReadFile and the first ReadDir of a
\* directory handle opened from the facade.
C8_ContextErrorSurfaces ==
  (last.op \in FacadeOps \cup {"DirReadDir"} /\ last.ctxst = "done" /\ last.ret.net # <<>>)
    => /\ IsContextErr(last.ret.err)
       /\ ~last.ret.panic

\* C8 witness: the first ReadDir of a handle whose context expired after the
\* handle was opened has failed with the context's error.
C8_Witness ==
  /\ last.op = "DirReadDir" /\ last.ctxst = "done"
  /\ IsContextErr(last.ret.err)

\* The drive and the folder a listing request of the returned call is for.
ListTargetOf(call) ==
  IF call.op = "DirReadDir"
  THEN [driveID |-> call.pre.driveID, folderID |-> call.pre.dirID]
  ELSE [driveID |-> fsys.driveID, folderID |-> call.in[1].body.item.ID]

\* The address C9 gives the listing of a folder of a drive: the one
\* listDriveItems would build if it addressed the drive the way
\* getDriveItemsByPath does.
ClaimedListURL(driveID, folderID) ==
  newRequest((IF driveID # "" THEN "/v1.0/drives/" \o PathEscape(driveID) ELSE "me/drive")
             \o (IF folderID # "" THEN "/items/" \o PathEscape(folderID) ELSE "/root")
             \o "/children")
    \o "?" \o QueryEscape("$orderby") \o "=" \o QueryEscape("name asc")

\* C9: every listing request goes to <base>/drives/{driveID}/... for a
\* non-empty driveID, the prefix item resolution uses, and to
\* <base>/me/drive/... for an empty one, followed by root/children or
\* items/{folderID}/children and the query $orderby=name asc.
C9_ListURL ==
  \A i \in 1..Len(last.ret.net) :
    last.ret.net[i].kind = "list"
      => RequestURL(last.ret.net[i])
           = ClaimedListURL(ListTargetOf(last).driveID, ListTargetOf(last).folderID)

\* The error C10 gives a response with status >= 400.
ClaimedStatusError(o) ==
  IF o.body.kind = "object" /\ o.body.error # ""
  THEN OneDriveAPIError(o.body.error, o.hdr)
  ELSE ErrorsNew("unexpected error: " \o StatusText(o.code))

\* Whether a returned call carries no result.
NoResult(call) ==
  call.ret.val = CASE call.op = "Open" -> NoFile
                   [] call.op = "Stat" -> NoInfo
                   [] call.op = "ReadFile" -> ""
                   [] OTHER -> <<>>

\* C10: a resolve or list response with status >= 400 gives the call an
\* error and no result: the remote API error with the response's headers when
\* the body decodes to an error object, "unexpected error: <status>"
\* otherwise.  (An itemNotFound API error of a resolve reaches the facade's
\* caller as the not-exist condition, C2.)
C10_StatusErrors ==
  /\ (last.op \in FacadeOps /\ Len(last.ret.net) >= 1 /\ last.in[1].err = "" /\ last.in[1].code >= 400)
       => /\ last.ret.err # NilErr /\ ~last.ret.panic /\ NoResult(last)
          /\ last.ret.err = ResolveError(ClaimedStatusError(last.in[1]))
          /\ Len(last.ret.net) = 1
  /\ (last.op = "DirReadDir" /\ last.in[1].err = "" /\ last.in[1].code >= 400)
       => /\ last.ret.err = ClaimedStatusError(last.in[1])
          /\ ~last.ret.panic /\ NoResult(last)
  /\ (last.op = "ReadDir" /\ Len(last.ret.net) = 2 /\ last.in[3].err = "" /\ last.in[3].code >= 400)
       => /\ last.ret.err = ClaimedStatusError(last.in[3])
          /\ ~last.ret.panic /\ NoResult(last)

\* C10 witness: a listing answered 400 with an error object has returned the
\* API error with the response's headers.
C10_Witness ==
  /\ last.op = "DirReadDir" /\ last.in[1].err = "" /\ last.in[1].code = 400
  /\ last.ret.err = OneDriveAPIError(ActivityLimitReachedErrorCode, "Retry-After: 5")

\* ============================================================ handle claims
\* C4: draining a fresh handle of a directory by ReadDir(1) calls until
\* end-of-sequence yields the entries, in order, that one ReadDir(-1) on
\* another fresh handle of the same directory yields, for every order in
\* which the service lists the children.
C4_DrainEqualsReadAll ==
  (/\ last.op = "DirReadDir" /\ last.arg = -1 /\ mode.m = "all"
   /\ drained.ok /\ drained.dirID = dir.dirID /\ drained.items = dir.items)
    => mode.out = drained.out

\* The listing a returned ReadDir of a handle worked on: the cached one, or
\* the one the call itself fetched.
FetchedItems(call) ==
  IF call.pre.once = "new" THEN listDriveItems(call.in[1]).items ELSE call.pre.items

\* Whether a returned ReadDir of a handle had a fetched listing to serve from.
Fetched(call) ==
  /\ call.op = "DirReadDir"
  /\ call.pre.once = "new" =>
       (listDriveItems(call.in[1]).err = NilErr /\ listDriveItems(call.in[1]).present)

\* The names of the k items after the cursor.
NamesAtCursor(items, offset, k) == {items[offset + i].Name : i \in 1..k}

\* C7: on a fetched handle with r unread entries, ReadDir(count) with
\* count > 0 returns min(count, r) entries, those at the cursor, and advances
\* the cursor by as many, and signals end-of-sequence with no entries exactly
\* when r = 0; with count < 0 it returns the r remaining entries without an
\* error, also when r = 0, and leaves the cursor at the end.
C7_BatchContract ==
  (Fetched(last) /\ last.arg # 0)
    => LET items == FetchedItems(last)
           offset == last.pre.offset
           r == Len(items) - offset
           k == IF last.arg > 0 /\ last.arg < r THEN last.arg ELSE r
           ret == last.ret
       IN /\ ~ret.panic
          /\ dir.items = items
          /\ (ret.err = EOF) <=> (last.arg > 0 /\ r = 0)
          /\ ret.err \in {NilErr, EOF}
          /\ ret.err = EOF => (ret.val = <<>> /\ dir.offset = offset)
          /\ ret.err = NilErr =>
               /\ Len(ret.val) = k
               /\ Range(NamesOf(ret.val)) = NamesAtCursor(items, offset, k)
               /\ dir.offset = offset + k
               /\ last.arg < 0 => dir.offset = Len(items)

\* C7 witness: ReadDir(1) on an already fetched handle with two unread
\* entries returned one entry.
C7_Witness ==
  /\ last.op = "DirReadDir" /\ last.arg = 1 /\ last.pre.once = "done"
  /\ Len(last.pre.items) - last.pre.offset = 2
  /\ Len(last.ret.val) = 1 /\ dir.offset = last.pre.offset + 1

\* ======================================================== concurrency claims
\* C5: ReadDir calls that run concurrently as the first reads of one handle
\* all observe the outcome of the single fetch: when the fetch failed, each
\* of them returns that failure, never an empty result or end-of-sequence;
\* when it succeeded, each is served from the fetched listing.
C5_CallersShareFetchOutcome ==
  \A c \in Callers :
    (calls[c].pc = "returned" /\ calls[c].raced /\ dir.once = "done" /\ ~calls[c].ret.panic)
      => /\ fetchErr # NilErr => calls[c].ret.err = fetchErr
         /\ fetchErr = NilErr =>
              /\ calls[c].ret.err \in {NilErr, EOF}
              /\ Range(NamesOf(calls[c].ret.val)) \subseteq Range(ItemNamesOf(dir.items))

\* C6: the listing of a handle is requested at most once, whatever the
\* ReadDir calls and their interleaving and whether or not the fetch failed,
\* and not before the first ReadDir call: Open, Stat and Close issue no
\* listing request.
C6_ListedAtMostOnce ==
  /\ listCount <= 1
  /\ ncalls = 0 => listCount = 0
  /\ last.op \in {"Open", "DirStat", "DirClose"}
       => \A i \in 1..Len(last.ret.net) : last.ret.net[i].kind # "list"

\* C6 witness: after a failed fetch, a ReadDir call that started when the
\* fetch was over has returned, and the listing was requested once.
C6_Witness ==
  /\ listCount = 1 /\ fetchErr # NilErr /\ ncalls = MaxReads
  /\ \E c \in Callers : calls[c].pc = "returned" /\ ~calls[c].raced

\* ========================================================== behaviour claims
\* Whether the returned call issued a resolve request that the transport
\* answered.
ResolveAnswered(call) ==
  call.op \in FacadeOps /\ Len(call.ret.net) >= 1 /\ call.in[1].err = ""

\* The outcome of the listing request of the returned call, when it issued
\* one that the transport answered.
ListOutcomeOf(call) == IF call.op = "DirReadDir" THEN call.in[1] ELSE call.in[3]

ListAnswered(call) ==
  /\ \/ call.op = "DirReadDir" /\ call.pre.once = "new"
     \/ call.op = "ReadDir" /\ Len(call.ret.net) = 2
  /\ ListOutcomeOf(call).err = ""

\* C11: a resolve or list request that returns no error returns a present
\* item or listing, for every status below 400, 204 and a null body
\* included, so that Open, Stat and the first ReadDir of a handle never
\* dereference an absent result.
C11_ResultPresent ==
  /\ (ResolveAnswered(last) /\ getDriveItemsByPath(last.in[1]).err = NilErr)
       => getDriveItemsByPath(last.in[1]).present
  /\ (ListAnswered(last) /\ listDriveItems(ListOutcomeOf(last)).err = NilErr)
       => listDriveItems(ListOutcomeOf(last)).present
  /\ last.op \in FacadeOps \cup {"DirReadDir"} => ~last.ret.panic

\* C12: under every interleaving of concurrent ReadDir calls on one handle,
\* first reads included, the cursor stays within 0 <= offset <= number of
\* fetched entries, so no call computes a negative count of remaining
\* entries, and no entry is handed out by two calls.
C12_CursorInBounds ==
  /\ dir.kind = "dir" => (0 <= dir.offset /\ dir.offset <= Len(dir.items))
  /\ \A c \in Callers : calls[c].pc \in {"copy", "advance"} => calls[c].n >= 0
  /\ \A c1, c2 \in Callers :
       (c1 # c2 /\ calls[c1].pc = "returned" /\ calls[c2].pc = "returned")
         => Range(NamesOf(calls[c1].ret.val)) \cap Range(NamesOf(calls[c2].ret.val)) = {}

\* Whether the returned call issued a download request that was answered
\* with a status of 400 or more.
DownloadRefused(call) ==
  /\ call.op \in {"Open", "ReadFile"}
  /\ Len(call.ret.net) = 2 /\ call.ret.net[2].kind = "download"
  /\ call.in[2].err = "" /\ call.in[2].code >= 400

\* C13: Open of a file path returns a file handle only when the download
\* request was answered with a status below 400; a download answered with
\* another status makes Open, and so ReadFile, fail with an error, and the
\* body of the error response is never given out as the file's content.
C13_DownloadStatusChecked ==
  /\ (last.op = "Open" /\ last.ret.val.kind = "file") => last.ret.val.code < 400
  /\ DownloadRefused(last)
       => /\ last.ret.err # NilErr
          /\ NoResult(last)

====
